---- MODULE Spec2Model ----
(***************************************************************************)
(* Model of station_check.py (mbdb/rlbp_gissmo_check): the validators of   *)
(* a seismic station's metadata and the orchestrator that fetches the      *)
(* records and calls them.                                                 *)
(*                                                                         *)
(* Conventions.                                                            *)
(*  - A printed line is a record [tag, msg, args]: the bcolors tag ("" for *)
(*    a plain report line), the text that tells the line from the others   *)
(*    (its format string or its message) and the values formatted into it. *)
(*  - pc is the position of the running function; "idle" is a normal       *)
(*    return, "raised" an exception that nobody catches (exc names it).    *)
(*  - Angles, coordinates and rates are integers in tenths of the unit.    *)
(*  - A JSON value that may be null, a number or a string is a tagged      *)
(*    record: None, Num(n), Str(s).                                        *)
(***************************************************************************)
EXTENDS Integers, Sequences, FiniteSets, TLC

VARIABLES
    pc,             \* position in the running function
    exc,            \* NoExc, or the exception that ended the run and where it was raised
    out,            \* the lines printed so far
    nfetch,         \* number of get_json calls issued so far
    requested,      \* the shrinking checklist of check_docs / check_sta_equipments
    idx,            \* index of the loop in progress
    doc_list,       \* argument of check_docs
    equip_list,     \* argument of check_sta_equipments
    ip_list,        \* argument of check_ips
    some_json,      \* argument of _check_position
    chan_json,      \* argument of _check_chan_mseed_standard
    sta_list,       \* argument of check_station
    ser_list,       \* argument of check_services
    caller,         \* check_overall_single_station: the validator it calls next
                    \* ("none" when a validator runs on its own)
    chan_list,      \* argument of check_chan_list: the channel records, which
                    \* _check_chan_attribute sorts in place
    kept_chan_list, \* check_chan_list: the kept channels, as indices into chan_list
                    \* (the Python list holds the same objects as chan_list)
    sta_json,       \* check_chan_list: the station of the first kept channel
    _hhz_all_param  \* check_chan_list: the parameters of the HHZ channel, or None

\* what the caller of a validator holds: the arguments and its own position
args == <<doc_list, equip_list, ip_list, some_json, chan_json, sta_list, ser_list, caller>>

\* the state of check_chan_list
chan == <<chan_list, kept_chan_list, sta_json, _hhz_all_param>>

vars == <<pc, exc, out, nfetch, requested, idx, args, chan>>

(***************************************************************************)
(* Bounds of the model.                                                    *)
(***************************************************************************)
MaxDocs == 5
MaxEquips == 5
MaxIps == 3
MaxExtras == 1

(***************************************************************************)
(* bcolors and printing.                                                   *)
(***************************************************************************)
ERROR == "[error]"
WARNING == "[warning]"

Line(tag, msg, a) == [tag |-> tag, msg |-> msg, args |-> a]

Lines(o, msg) == {i \in 1..Len(o) : o[i].msg = msg}

(***************************************************************************)
(* Python's strings and lists.                                             *)
(***************************************************************************)
Min(a, b) == IF a < b THEN a ELSE b

\* s[:n]
Prefix(s, n) == SubSeq(s, 1, Min(n, Len(s)))

\* re.search(pat, s) for a pattern without metacharacters: pat occurs in s
re_search(pat, s) ==
    \E i \in 1..(Len(s) - Len(pat) + 1) : SubSeq(s, i, i + Len(pat) - 1) = pat

UpperCase == "ABCDEFGHIJKLMNOPQRSTUVWXYZ"
LowerCase == "abcdefghijklmnopqrstuvwxyz"

\* the lower-case letter of every upper-case letter
ToLower ==
    [c \in {SubSeq(UpperCase, k, k) : k \in 1..26} |->
        LET k == CHOOSE j \in 1..26 : SubSeq(UpperCase, j, j) = c
        IN  SubSeq(LowerCase, k, k)]

lowerChar(c) == IF c \in DOMAIN ToLower THEN ToLower[c] ELSE c

\* str.lower()
RECURSIVE lower(_)
lower(s) ==
    IF Len(s) = 0 THEN ""
    ELSE lowerChar(SubSeq(s, 1, 1)) \o lower(SubSeq(s, 2, Len(s)))

\* x in l
In(x, l) == \E i \in 1..Len(l) : l[i] = x

\* l.index(x), defined when x in l
index(l, x) == CHOOSE i \in 1..Len(l) : l[i] = x /\ \A j \in 1..(i - 1) : l[j] # x

\* l.pop(i) as far as l is concerned
pop(l, i) == SubSeq(l, 1, i - 1) \o SubSeq(l, i + 1, Len(l))

\* s.replace(old, new), old not empty
RECURSIVE replace(_, _, _)
replace(s, old, new) ==
    IF Len(s) < Len(old) THEN s
    ELSE IF SubSeq(s, 1, Len(old)) = old
         THEN new \o replace(SubSeq(s, Len(old) + 1, Len(s)), old, new)
         ELSE SubSeq(s, 1, 1) \o replace(SubSeq(s, 2, Len(s)), old, new)

\* l.count(x)
count(l, x) == Cardinality({i \in 1..Len(l) : l[i] = x})

\* the characters of the model's strings, in the order of their code points
CodePoints == " -.0123456789ABCDEFGHIJKLMNOPQRSTUVWXYZ_abcdefghijklmnopqrstuvwxyz"

CodePoint(c) == CHOOSE k \in 1..Len(CodePoints) : SubSeq(CodePoints, k, k) = c

\* a < b on strings
RECURSIVE StrLess(_, _)
StrLess(a, b) ==
    IF Len(b) = 0 THEN FALSE
    ELSE IF Len(a) = 0 THEN TRUE
    ELSE IF SubSeq(a, 1, 1) = SubSeq(b, 1, 1)
         THEN StrLess(SubSeq(a, 2, Len(a)), SubSeq(b, 2, Len(b)))
         ELSE CodePoint(SubSeq(a, 1, 1)) < CodePoint(SubSeq(b, 1, 1))

\* a < b of Python, on two numbers or on two strings
Less(a, b, numbers) == IF numbers THEN a < b ELSE StrLess(a, b)

\* l.sort() as far as the resulting order is concerned (the sort is stable);
\* numbers tells whether l holds numbers or strings
sort(l, numbers) ==
    LET rank(i) == Cardinality({j \in 1..Len(l) : Less(l[j], l[i], numbers)})
                   + Cardinality({j \in 1..(i - 1) : l[j] = l[i]}) + 1
    IN  [k \in 1..Len(l) |-> l[CHOOSE i \in 1..Len(l) : rank(i) = k]]

\* all sequences over S of length 0..n
SeqUpTo(S, n) == UNION {[1..k -> S] : k \in 0..n}

\* <<x>> when c, nothing otherwise: a print under a condition
When(c, x) == IF c THEN <<x>> ELSE <<>>

Abs(x) == IF x < 0 THEN -x ELSE x

(***************************************************************************)
(* JSON values.                                                            *)
(***************************************************************************)
None == [k |-> "none"]
Num(n) == [k |-> "num", v |-> n]
Str(s) == [k |-> "str", s |-> s]

NoJson == [k |-> "absent"]

(***************************************************************************)
(* Exceptions: nothing in the program catches one.                         *)
(***************************************************************************)
NoExc == [type |-> "none", fn |-> ""]
Raised(type, fn) == [type |-> type, fn |-> fn]

\* n units, in tenths
Units(n) == n * 10

Digits == "0123456789"

DigitVal(c) == CHOOSE d \in 0..9 : SubSeq(Digits, d + 1, d + 1) = c

\* int() of a string of digits
RECURSIVE ParseInt(_)
ParseInt(s) ==
    IF Len(s) = 0 THEN 0
    ELSE ParseInt(SubSeq(s, 1, Len(s) - 1)) * 10 + DigitVal(SubSeq(s, Len(s), Len(s)))

DotPos(s) ==
    IF \E i \in 1..Len(s) : SubSeq(s, i, i) = "."
    THEN CHOOSE i \in 1..Len(s) : SubSeq(s, i, i) = "."
    ELSE Len(s) + 1

\* float(s) of a decimal string "[-]ddd[.d...]", in tenths; the strings of the
\* model hold only zeros after the first decimal
ParseFloat(s) ==
    LET neg == Len(s) > 0 /\ SubSeq(s, 1, 1) = "-"
        body == IF neg THEN SubSeq(s, 2, Len(s)) ELSE s
        p == DotPos(body)
        whole == ParseInt(SubSeq(body, 1, p - 1))
        frac == SubSeq(body, p + 1, Len(body))
        tenth == IF Len(frac) = 0 THEN 0 ELSE DigitVal(SubSeq(frac, 1, 1))
    IN  (IF neg THEN -1 ELSE 1) * (whole * 10 + tenth)

\* float(x) of a JSON number or decimal string (float(None) raises TypeError:
\* the callers test for None first)
Float(x) == IF x.k = "num" THEN x.v ELSE ParseFloat(x.s)

\* str(n) of an integer n >= 0
RECURSIVE IntStr(_)
IntStr(n) ==
    IF n < 10 THEN SubSeq(Digits, n + 1, n + 1)
    ELSE IntStr(n \div 10) \o SubSeq(Digits, (n % 10) + 1, (n % 10) + 1)

\* "%.1f" % x, x given in tenths
Format1(t) ==
    (IF t < 0 THEN "-" ELSE "") \o IntStr(Abs(t) \div 10) \o "." \o IntStr(Abs(t) % 10)

\* s[-1], s[0], s[1]
LastChar(s) == SubSeq(s, Len(s), Len(s))
CharAt(s, i) == SubSeq(s, i + 1, i + 1)

(***************************************************************************)
(* check_docs                                                              *)
(***************************************************************************)
RequestedDocs == <<"Lease", "Datasheet", "Picture", "Analysis report", "Site proposal">>

ProposalLink == "https://gissmo.unistra.fr/docs/dossier_proposition_site_CHMF.pdf"
OtherLink == "https://gissmo.unistra.fr/docs/rapport_bruit_CHMF.pdf"

DocTypes == {"Lease", "Datasheet", "Picture", "Analysis report", "Site proposal",
             "Other"}

Doc(t, l) == [doctype |-> t, title |-> "t", link |-> l]

\* every type with an ordinary link, and two documents named like a site proposal
DocPool == {Doc(t, OtherLink) : t \in DocTypes}
           \cup {Doc("Analysis report", ProposalLink), Doc("Lease", ProposalLink)}

\* line 227-228: the document also stands for the site proposal
IsSiteProposalReport_NoTypeTest(d) == re_search("dossier_proposition_site_", d.link)

IsSiteProposalReport(d) ==
    re_search("dossier_proposition_site_", d.link) /\ d.doctype = "Analysis report"

\* lines 225-226: the checklist after the document's own type is consumed
AfterDoctype(req, d) ==
    IF In(d.doctype, req) THEN pop(req, index(req, d.doctype)) ELSE req

DocLine(d) == Line("", "    %s '%s' available at %s", <<d.doctype, d.title, d.link>>)

check_docs_begin ==
    /\ pc = "check_docs"
    /\ requested' = RequestedDocs
    /\ idx' = 1
    /\ IF Len(doc_list) = 0
       THEN /\ out' = Append(out, Line(ERROR, "%s no document related to this station", <<>>))
            /\ pc' = "idle"
       ELSE /\ out' = Append(out, Line("", "Documents:", <<>>))
            /\ pc' = "check_docs_loop"
    /\ UNCHANGED <<exc, nfetch, args, chan>>

\* one iteration of the loop of lines 222-229
check_docs_step ==
    /\ pc = "check_docs_loop"
    /\ idx <= Len(doc_list)
    /\ LET d == doc_list[idx]
           req1 == AfterDoctype(requested, d)
       IN  /\ out' = Append(out, DocLine(d))
           /\ IF IsSiteProposalReport(d)
              THEN IF In("Site proposal", req1)
                   THEN /\ requested' = pop(req1, index(req1, "Site proposal"))
                        /\ idx' = idx + 1
                        /\ UNCHANGED <<pc, exc>>
                   ELSE \* requested.index("Site proposal") raises ValueError
                        /\ requested' = req1
                        /\ pc' = "raised"
                        /\ exc' = Raised("ValueError", "check_docs")
                        /\ UNCHANGED idx
              ELSE /\ requested' = req1
                   /\ idx' = idx + 1
                   /\ UNCHANGED <<pc, exc>>
    /\ UNCHANGED <<nfetch, args, chan>>

MissingDocLines(req) ==
    [i \in 1..Len(req) |-> Line(ERROR, "%s no %s related to this station", <<req[i]>>)]

\* lines 231-233
check_docs_report ==
    /\ pc = "check_docs_loop"
    /\ idx > Len(doc_list)
    /\ out' = out \o MissingDocLines(requested)
    /\ pc' = "idle"
    /\ UNCHANGED <<exc, nfetch, requested, idx, args, chan>>

check_docs == check_docs_begin \/ check_docs_step \/ check_docs_report

(***************************************************************************)
(* check_sta_equipments                                                    *)
(***************************************************************************)
RequestedEquips == <<"Velocimeter", "Datalogger", "Armoire BT", "Armoire TBT", "Modem">>

EquipTypes == {"Velocimeter", "Datalogger", "Armoire BT", "Armoire TBT", "Modem",
               "ADSL Modem", "Routeur 4G"}

Equip(t, st) == [type |-> t, name |-> "n", serial_number |-> "1", status |-> st, id |-> 7]

\* every type in service, and an equipment of another type out of service
EquipPool == {Equip(t, "Running") : t \in EquipTypes} \cup {Equip("Antenne GPS", "Broken")}

\* lines 250-251 (and 499-500): the type names a modem or a router
IsNetEquipment_CaseSensitive(e) ==
    re_search("modem", e.type) \/ re_search("routeur", e.type)

IsNetEquipment(e) ==
    re_search("modem", lower(e.type)) \/ re_search("routeur", lower(e.type))

EquipLine(e) == Line("", "    %s %s #%s %s", <<e.type, e.name, e.serial_number, e.status>>)

check_sta_equipments_begin ==
    /\ pc = "check_sta_equipments"
    /\ requested' = RequestedEquips
    /\ idx' = 1
    /\ IF Len(equip_list) = 0
       THEN /\ out' = Append(out, Line(ERROR, "%s no equipement installed at this station", <<>>))
            /\ pc' = "idle"
       ELSE /\ out' = Append(out, Line("", "Current equipments:", <<>>))
            /\ pc' = "check_sta_equipments_loop"
    /\ UNCHANGED <<exc, nfetch, args, chan>>

\* one iteration of the loop of lines 245-252
check_sta_equipments_step ==
    /\ pc = "check_sta_equipments_loop"
    /\ idx <= Len(equip_list)
    /\ LET e == equip_list[idx]
       IN  /\ out' = Append(out, EquipLine(e))
           /\ IF In(e.type, requested)
              THEN /\ requested' = pop(requested, index(requested, e.type))
                   /\ idx' = idx + 1
                   /\ UNCHANGED <<pc, exc>>
              ELSE IF IsNetEquipment(e)
              THEN IF In("Modem", requested)
                   THEN /\ requested' = pop(requested, index(requested, "Modem"))
                        /\ idx' = idx + 1
                        /\ UNCHANGED <<pc, exc>>
                   ELSE \* requested.index("Modem") raises ValueError
                        /\ pc' = "raised"
                        /\ exc' = Raised("ValueError", "check_sta_equipments")
                        /\ UNCHANGED <<requested, idx>>
              ELSE /\ idx' = idx + 1
                   /\ UNCHANGED <<requested, pc, exc>>
    /\ UNCHANGED <<nfetch, args, chan>>

\* lines 254-258
RECURSIVE StatusLines(_)
StatusLines(l) ==
    IF Len(l) = 0 THEN <<>>
    ELSE When(Head(l).status # "Running",
              Line(ERROR, "%s %s %s #%s current status is '%s'",
                   <<Head(l).type, Head(l).name, Head(l).serial_number, Head(l).status>>))
         \o StatusLines(Tail(l))

MissingEquipLines(req) ==
    [i \in 1..Len(req) |-> Line(ERROR, "%s no %s installed at this station", <<req[i]>>)]

\* lines 254-262
check_sta_equipments_report ==
    /\ pc = "check_sta_equipments_loop"
    /\ idx > Len(equip_list)
    /\ out' = out \o StatusLines(equip_list) \o MissingEquipLines(requested)
    /\ pc' = "idle"
    /\ UNCHANGED <<exc, nfetch, requested, idx, args, chan>>

check_sta_equipments ==
    \/ check_sta_equipments_begin
    \/ check_sta_equipments_step
    \/ check_sta_equipments_report

(***************************************************************************)
(* check_ips                                                               *)
(***************************************************************************)
Ip(a, m) == [ip |-> a, netmask |-> m]

IpPool == {Ip(a, m) : a \in {"192.168.1.10", "10.1.2.3", "82.127.10.4", "100.64.0.1"},
                      m \in {"0.0.0.0", "255.255.255.0"}}

\* lines 270-271
IsPublic_ShortPrefix(ip) ==
    /\ Prefix(ip.ip, 7) # "192.168"
    /\ Prefix(ip.ip, 2) # "10"
    /\ ip.netmask = "0.0.0.0"

IsPublic(ip) ==
    /\ Prefix(ip.ip, 7) # "192.168"
    /\ Prefix(ip.ip, 3) # "10."
    /\ ip.netmask = "0.0.0.0"

\* lines 269-272
RECURSIVE PublicIps(_)
PublicIps(l) ==
    IF Len(l) = 0 THEN <<>>
    ELSE When(IsPublic(Head(l)), Head(l)) \o PublicIps(Tail(l))

check_ips ==
    /\ pc = "check_ips"
    /\ LET public_ip == PublicIps(ip_list)
       IN  out' = Append(out, Line("", "Wide Area Network configuration (found on the modem):", <<>>))
                  \o (IF Len(public_ip) = 0
                      THEN <<Line(ERROR, "no public ip found, should be configured at modem level",
                                  <<>>)>>
                      ELSE [i \in 1..Len(public_ip) |->
                               Line("", "    Public IP: %s", <<public_ip[i].ip>>)])
    /\ pc' = "idle"
    /\ UNCHANGED <<exc, nfetch, requested, idx, args, chan>>

(***************************************************************************)
(* _check_position                                                         *)
(***************************************************************************)

\* lines 70-88: the lines _check_position prints
PositionLines_StrictBound(j) ==
       When(j.latitude = None \/ Abs(Float(j.latitude)) >= Units(90),
            Line(ERROR, "%s latitude is %s", <<j.latitude>>))
    \o When(j.longitude = None \/ Abs(Float(j.longitude)) > Units(180),
            Line(ERROR, "%s longitude is %s", <<j.longitude>>))
    \o When(j.elevation = None \/ Float(j.elevation) < Units(-11000)
                               \/ Float(j.elevation) > Units(9000),
            Line(ERROR, "%s elevation is %s", <<j.elevation>>))
    \o When(j.latitude_unit = None, Line(ERROR, "%s latitude unit is None", <<>>))
    \o When(j.longitude_unit = None, Line(ERROR, "%s longitude unit is None", <<>>))
    \o When(j.elevation_unit = None, Line(ERROR, "%s elevation unit is None", <<>>))

PositionLines(j) ==
       When(j.latitude = None \/ Abs(Float(j.latitude)) > Units(90),
            Line(ERROR, "%s latitude is %s", <<j.latitude>>))
    \o When(j.longitude = None \/ Abs(Float(j.longitude)) > Units(180),
            Line(ERROR, "%s longitude is %s", <<j.longitude>>))
    \o When(j.elevation = None \/ Float(j.elevation) < Units(-11000)
                               \/ Float(j.elevation) > Units(9000),
            Line(ERROR, "%s elevation is %s", <<j.elevation>>))
    \o When(j.latitude_unit = None, Line(ERROR, "%s latitude unit is None", <<>>))
    \o When(j.longitude_unit = None, Line(ERROR, "%s longitude unit is None", <<>>))
    \o When(j.elevation_unit = None, Line(ERROR, "%s elevation unit is None", <<>>))

_check_position ==
    /\ pc = "_check_position"
    /\ out' = out \o PositionLines(some_json)
    /\ pc' = "idle"
    /\ UNCHANGED <<exc, nfetch, requested, idx, args, chan>>

Latitudes == {None, Num(-901), Num(-900), Num(485), Num(900), Num(901)}
Longitudes == {None, Num(-1801), Num(-1800), Num(75), Num(1800), Num(1801)}
Elevations == {None, Num(-110001), Num(-110000), Num(2500), Num(90000), Num(90001)}
UnitValues == {None, Str("unit")}

PositionPool ==
    [latitude : Latitudes, longitude : Longitudes, elevation : Elevations,
     latitude_unit : UnitValues, longitude_unit : UnitValues, elevation_unit : UnitValues]

(***************************************************************************)
(* check_station                                                           *)
(***************************************************************************)
OperatorEOST == "https://gissmo.unistra.fr/api/v1/organizations/1/"
OperatorNone == "https://gissmo.unistra.fr/api/v1/organizations/2/"

\* get_json(sta_json['operator'])
Operator(url) == [name |-> IF url = OperatorEOST THEN "EOST" ELSE "Unknown"]

\* lines 184-196
StationReport(sta, operator_json) ==
    <<Line("", "Station code: %s", <<sta.code>>),
      Line("", "Name: %s", <<sta.name>>),
      Line("", "Position:", <<>>),
      Line("", "    Latitude: %s %s", <<sta.latitude, sta.latitude_unit>>),
      Line("", "    Longitude: %s %s", <<sta.longitude, sta.longitude_unit>>),
      Line("", "    Elevation: %s %s", <<sta.elevation, sta.elevation_unit>>),
      Line("", "Type: %s", <<sta.type>>),
      Line("", "Status: %s", <<sta.status>>),
      Line("", "Geology: %s", <<sta.geology>>),
      Line("", "Operator organization: %s", <<operator_json.name>>)>>

\* lines 200-211
StationFindings(sta, operator_json) ==
       When(sta.status # "Running", Line(ERROR, "%s current status is '%s'", <<sta.status>>))
    \o When(sta.geology = "", Line(WARNING, "%s geology not filled", <<>>))
    \o When(operator_json.name = "Unknown", Line(ERROR, "%s operator unknown", <<>>))
    \o When(sta.type # "Measuring site", Line(ERROR, "%s current type is '%s'", <<sta.type>>))

\* lines 179-211; ok tells whether get_json answers with success
check_station ==
    /\ pc = "check_station"
    /\ \E ok \in BOOLEAN :
          LET sta == sta_list[1]
              operator_json == Operator(sta.operator)
          IN  /\ nfetch' = nfetch + 1
              /\ IF ~ ok
                 THEN /\ pc' = "raised"
                      /\ exc' = Raised("HTTPError", "check_station")
                      /\ UNCHANGED out
                 ELSE /\ out' = out \o StationReport(sta, operator_json)
                                    \o PositionLines(sta) \o StationFindings(sta, operator_json)
                      /\ pc' = "idle"
                      /\ UNCHANGED exc
    /\ UNCHANGED <<requested, idx, args, chan>>

(***************************************************************************)
(* check_services                                                          *)
(***************************************************************************)
check_services ==
    /\ pc = "check_services"
    /\ out' = out \o
          (IF Len(ser_list) = 0
           THEN <<Line(ERROR, "no network services available", <<>>)>>
           ELSE [i \in 1..Len(ser_list) |->
                   Line("", "    %s available on port %s (%s)",
                        <<ser_list[i].protocol, ser_list[i].port, ser_list[i].description>>)])
    /\ pc' = "idle"
    /\ UNCHANGED <<exc, nfetch, requested, idx, args, chan>>

(***************************************************************************)
(* _check_chan_mseed_standard                                              *)
(***************************************************************************)
\* get_json(e)['type'] of an equipment URL: the equipments of the database
EquipmentType(e) ==
    CASE e = 1 -> "Velocimeter"
      [] e = 2 -> "Datalogger"
      [] e = 3 -> "Velocimeter"
      [] OTHER -> "Solar panel"

\* lines 96-127, azimuth being float(chan_json['azimuth'])
AzimuthLines_ClosedWindow(c, azimuth) ==
    IF azimuth < Units(0) \/ azimuth > Units(360)
    THEN <<Line(ERROR, "(should be in [0, 360]) not a consistent azimuth at channel",
                <<azimuth, c.code>>)>>
    ELSE CASE LastChar(c.code) = "E" ->
                When(Abs(azimuth - Units(90)) >= Units(5),
                     Line(ERROR, "(should be in [85, 95]) not a consistent azimuth at channel",
                          <<azimuth, c.code>>))
           [] LastChar(c.code) = "N" ->
                When(azimuth > Units(5) /\ azimuth < Units(355),
                     Line(ERROR, "(should not be in [5, 355]) not a consistent azimuth at channel",
                          <<azimuth, c.code>>))
           [] LastChar(c.code) = "1" ->
                When(azimuth < Units(5) \/ azimuth > Units(355),
                     Line(ERROR, "%s azimuth is %.2f, component should be 'N'", <<azimuth>>))
           [] LastChar(c.code) = "2" ->
                When(Abs(azimuth - Units(90)) < Units(5),
                     Line(ERROR, "(should not be in [85, 95]) not a consistent azimuth at channel",
                          <<azimuth, c.code>>))
           [] LastChar(c.code) = "Z" ->
                When(azimuth # 0,
                     Line(ERROR, "(should be '0.0') not a consistent azimuth at channel",
                          <<azimuth, c.code>>))
           [] OTHER -> <<>>

AzimuthLines(c, azimuth) ==
    IF azimuth < Units(0) \/ azimuth > Units(360)
    THEN <<Line(ERROR, "(should be in [0, 360]) not a consistent azimuth at channel",
                <<azimuth, c.code>>)>>
    ELSE CASE LastChar(c.code) = "E" ->
                When(Abs(azimuth - Units(90)) > Units(5),
                     Line(ERROR, "(should be in [85, 95]) not a consistent azimuth at channel",
                          <<azimuth, c.code>>))
           [] LastChar(c.code) = "N" ->
                When(azimuth > Units(5) /\ azimuth < Units(355),
                     Line(ERROR, "(should not be in [5, 355]) not a consistent azimuth at channel",
                          <<azimuth, c.code>>))
           [] LastChar(c.code) = "1" ->
                When(azimuth < Units(5) \/ azimuth > Units(355),
                     Line(ERROR, "%s azimuth is %.2f, component should be 'N'", <<azimuth>>))
           [] LastChar(c.code) = "2" ->
                When(Abs(azimuth - Units(90)) < Units(5),
                     Line(ERROR, "(should not be in [85, 95]) not a consistent azimuth at channel",
                          <<azimuth, c.code>>))
           [] LastChar(c.code) = "Z" ->
                When(azimuth # 0,
                     Line(ERROR, "(should be '0.0') not a consistent azimuth at channel",
                          <<azimuth, c.code>>))
           [] OTHER -> <<>>

\* lines 129-138, dip being float(chan_json['dip'])
DipLines_VerticalAsHorizontal(c, dip) ==
    IF LastChar(c.code) \in {"E", "N", "1", "2", "Z"}
    THEN When(dip # 0,
              Line(ERROR, "(should be '0.0') not a consistent dip at channel", <<dip, c.code>>))
    ELSE <<>>

DipLines(c, dip) ==
    IF LastChar(c.code) \in {"E", "N", "1", "2"}
    THEN When(dip # 0,
              Line(ERROR, "(should be '0.0') not a consistent dip at channel", <<dip, c.code>>))
    ELSE IF LastChar(c.code) = "Z"
    THEN When(dip # Units(-90),
              Line(ERROR, "(should be '-90.0') not a consistent dip at channel", <<dip, c.code>>))
    ELSE <<>>

\* lines 140-149: the lines printed and the exception raised, if any.
\* float(None) raises TypeError, and so does "%.2f" % s for a string s.
SampleRateCheck(c) ==
    LET expected == IF CharAt(c.code, 0) = "L" /\ c.location_code = "00" THEN Units(1)
                    ELSE IF CharAt(c.code, 0) = "H" /\ c.location_code = "00" THEN Units(100)
                    ELSE -1
        msg == IF expected = Units(1)
               THEN "(should be '1.0') not a consistent sample rate at channel"
               ELSE "(should be '100.0') not a consistent sample rate at channel"
    IN  IF expected = -1 THEN [lines |-> <<>>, exc |-> "none"]
        ELSE IF c.sample_rate = None THEN [lines |-> <<>>, exc |-> "TypeError"]
        ELSE IF Float(c.sample_rate) = expected THEN [lines |-> <<>>, exc |-> "none"]
        ELSE IF c.sample_rate.k = "str" THEN [lines |-> <<>>, exc |-> "TypeError"]
        ELSE [lines |-> <<Line(ERROR, msg, <<c.sample_rate.v, c.code>>)>>, exc |-> "none"]

\* lines 151-156
DatatypeLines(c) ==
       When(~ In("CONTINUOUS", c.datatypes),
            Line(ERROR, "'CONTINUOUS' not in datatypes at channel", <<c.code>>))
    \o When(~ In("GEOPHYSICAL", c.datatypes),
            Line(ERROR, "'GEOPHYSICAL' not in datatypes at channel", <<c.code>>))

\* lines 158-161: the loop over the channel's equipments from the i-th on; the
\* fail-th get_json answers with an error status (0: none does)
RECURSIVE EquipmentLoop(_, _, _, _)
EquipmentLoop(equipments, req, i, fail) ==
    IF i > Len(equipments) THEN [requested |-> req, exc |-> "none", nfetch |-> i - 1]
    ELSE IF i = fail THEN [requested |-> req, exc |-> "HTTPError", nfetch |-> i]
    ELSE IF ~ In(EquipmentType(equipments[i]), req)
         THEN [requested |-> req, exc |-> "ValueError", nfetch |-> i]
    ELSE EquipmentLoop(equipments,
                       pop(req, index(req, EquipmentType(equipments[i]))), i + 1, fail)

\* lines 162-165
MissingAtChannelLines(req, c) ==
    [i \in 1..Len(req) |-> Line(ERROR, "missing at channel", <<req[i], c.code>>)]

\* the whole of _check_chan_mseed_standard(c): what it prints, how many
\* fetches it issues and the exception that ends it, if any
Mseed(c, fail) ==
    IF c.azimuth = None \/ c.dip = None
    THEN [lines |-> <<>>, exc |-> "TypeError", nfetch |-> 0]
    ELSE
    LET first == AzimuthLines(c, Float(c.azimuth)) \o DipLines(c, Float(c.dip))
        rate == SampleRateCheck(c)
    IN  IF rate.exc # "none"
        THEN [lines |-> first, exc |-> rate.exc, nfetch |-> 0]
        ELSE
        LET loop == EquipmentLoop(c.equipments, <<"Velocimeter", "Datalogger">>, 1, fail)
            checks == first \o rate.lines \o DatatypeLines(c)
        IN  IF loop.exc # "none"
            THEN [lines |-> checks, exc |-> loop.exc, nfetch |-> loop.nfetch]
            ELSE [lines |-> checks \o MissingAtChannelLines(loop.requested, c),
                  exc |-> "none", nfetch |-> loop.nfetch]

_check_chan_mseed_standard ==
    /\ pc = "_check_chan_mseed_standard"
    /\ \E fail \in 0..Len(chan_json.equipments) :
          LET r == Mseed(chan_json, fail)
          IN  /\ out' = out \o r.lines
              /\ nfetch' = nfetch + r.nfetch
              /\ IF r.exc = "none"
                 THEN pc' = "idle" /\ UNCHANGED exc
                 ELSE pc' = "raised" /\ exc' = Raised(r.exc, "_check_chan_mseed_standard")
    /\ UNCHANGED <<requested, idx, args, chan>>

MseedCodes == {"HHE", "HHN", "HH1", "HH2", "HHZ", "LHZ"}
MseedAzimuths == {None, Num(-1), Num(0), Num(50), Num(800), Num(849), Num(850), Num(920),
                  Num(950), Num(951), Num(3550), Num(3600), Num(3601), Str("92.0")}
MseedDips == {None, Num(-900), Num(-895), Num(0), Str("-90.0")}
MseedSampleRates == {None, Num(1000), Num(10), Str("100.0")}
MseedDatatypes == {<<"CONTINUOUS", "GEOPHYSICAL">>, <<"TRIGGERED", "GEOPHYSICAL">>}
MseedEquipments == {<<1, 2>>, <<2>>, <<1, 4>>}

MseedPool ==
    [code : MseedCodes, location_code : {"00", "10"}, azimuth : MseedAzimuths,
     dip : MseedDips, sample_rate : MseedSampleRates, datatypes : MseedDatatypes,
     equipments : MseedEquipments]

(***************************************************************************)
(* The records the API serves to check_chan_list.                          *)
(***************************************************************************)
NetworkFR == "https://gissmo.unistra.fr/api/v1/networks/1/"
NetworkRA == "https://gissmo.unistra.fr/api/v1/networks/2/"
SiteCHMF == "https://gissmo.unistra.fr/api/v1/sites/1/"

\* get_json(c['network'])
Network(url) == [code |-> IF url = NetworkFR THEN "FR" ELSE "RA"]

\* get_json(c['station'])
Station(url) ==
    [code |-> "CHMF", latitude |-> Num(485), longitude |-> Num(75), elevation |-> Num(2500)]

\* get_json(e) of an equipment URL
Equipment(e) == [type |-> EquipmentType(e), name |-> "n", serial_number |-> e]

Param(mo, p, v) == [model |-> mo, parameter |-> p, value |-> v]

\* get_parameter_from_chan(id, url): the long-period channels hold the same
\* parameters in another order, channel 8 holds none, channel 9 another gain
ChannelParameters(id) ==
    CASE id \in {4, 5, 6} -> <<Param("Q330", "gain", "1"), Param("STS2", "sensitivity", "1500")>>
      [] id = 8 -> <<>>
      [] id = 9 -> <<Param("STS2", "sensitivity", "1500"), Param("Q330", "gain", "2")>>
      [] OTHER -> <<Param("STS2", "sensitivity", "1500"), Param("Q330", "gain", "1")>>

\* a channel of station CHMF, open, on network FR at location 00
Channel(id, code, azimuth, dip, rate) ==
    [id |-> id, code |-> code, end_date |-> None, network |-> NetworkFR,
     station |-> SiteCHMF, location_code |-> "00",
     azimuth |-> azimuth, azimuth_unit |-> "deg", dip |-> dip, dip_unit |-> "deg",
     sample_rate |-> rate, sample_rate_unit |-> "Hz",
     depth |-> Num(0), depth_unit |-> "m",
     latitude |-> Num(485), latitude_unit |-> Str("deg"),
     longitude |-> Num(75), longitude_unit |-> Str("deg"),
     elevation |-> Num(2500), elevation_unit |-> Str("m"),
     clock_drift |-> Num(0), clock_drift_unit |-> "s",
     calibration_units |-> "M/S", datatypes |-> <<"CONTINUOUS", "GEOPHYSICAL">>,
     storage_format |-> "Steim2", equipments |-> <<1, 2>>]

(***************************************************************************)
(* _check_chan_attribute                                                   *)
(***************************************************************************)
\* the attributes whose values are lists (isinstance(_param_list[0], list))
ListAttributes == {"datatypes", "equipments"}

\* line 173: _p.sort() on the list of a channel
SortedValue(param, v) ==
    sort(v, param = "equipments")

\* lines 171-173: the channel records after the sorting; l holds the indices of
\* the channels the function was given
SortAttribute(cl, l, param) ==
    IF param \in ListAttributes
    THEN [j \in 1..Len(cl) |->
            IF In(j, l) THEN [cl[j] EXCEPT ![param] = SortedValue(param, cl[j][param])]
            ELSE cl[j]]
    ELSE cl

\* lines 170, 174-176: the line printed, the records being those after the sorting
AttributeLines(cl, l, param) ==
    LET _param_list == [i \in 1..Len(l) |-> cl[l[i]][param]]
    IN  When(count(_param_list, _param_list[1]) # Len(_param_list),
             Line(ERROR, "are not consistent between channels", <<param>>))

\* lines 366-380: the attributes checked on the kept channels, in this order
CheckedAttributes ==
    <<"depth", "depth_unit", "latitude", "latitude_unit", "longitude", "longitude_unit",
      "elevation", "elevation_unit", "clock_drift", "clock_drift_unit", "sample_rate_unit",
      "calibration_units", "datatypes", "storage_format", "equipments">>

\* the calls of _check_chan_attribute(kept_chan_list, p) for p from the i-th
\* attribute on: the records they leave and the lines they print
RECURSIVE AttributeChecks(_, _, _)
AttributeChecks(cl, l, i) ==
    IF i > Len(CheckedAttributes) THEN [chan_list |-> cl, lines |-> <<>>]
    ELSE LET cl1 == SortAttribute(cl, l, CheckedAttributes[i])
             rest == AttributeChecks(cl1, l, i + 1)
         IN  [chan_list |-> rest.chan_list,
              lines |-> AttributeLines(cl1, l, CheckedAttributes[i]) \o rest.lines]

(***************************************************************************)
(* check_chan_list                                                         *)
(***************************************************************************)
Kept == [i \in 1..Len(kept_chan_list) |-> chan_list[kept_chan_list[i]]]

\* lines 304-305
IsKept(c) ==
    /\ c.end_date = None
    /\ Network(c.network).code = "FR"
    /\ c.location_code = "00"
    /\ CharAt(c.code, 1) = "H"

\* line 325-327: the finding on the long-period streams
LHLines(_stream_list) ==
    When(count(_stream_list, "LH") # 3, Line(ERROR, "no or missing 'LH' channels", <<>>))

\* line 360: the azimuths of a horizontal pair disagree. The formatted string
\* is compared with the value of the record as the API gave it: a number never
\* equals a string.
PairDiffers(_az_n, _az_e) ==
    IF _az_e.k = "str"
    THEN Format1((Float(_az_n) + Units(90)) % Units(360)) # _az_e.s
    ELSE TRUE

\* lines 331-364: one iteration of the loop over _chan_list, on its i-th code:
\* the lines printed and the exception raised, if any
CrossCheck(_chan_list, _azimuth_list, _dip_list, i) ==
    LET _chan == _chan_list[i]
        hh2 == replace(_chan, Prefix(_chan, 2), "HH")
        hh1 == replace(_chan, Prefix(_chan, 1), "H")
        partner == IF LastChar(_chan) = "1" THEN replace(_chan, "1", "2")
                   ELSE replace(_chan, "N", "E")
    IN  IF ~ In(hh2, _chan_list)
        THEN [lines |-> <<Line(ERROR, "comp. codes not consistent with HH at channel", <<_chan>>)>>,
              exc |-> "none"]
        ELSE IF ~ In(hh1, _chan_list)
        THEN [lines |-> <<>>, exc |-> "ValueError"]
        ELSE
        LET streams ==
                   When(_azimuth_list[index(_chan_list, _chan)]
                            # _azimuth_list[index(_chan_list, hh1)],
                        Line(ERROR, "azimuth not consistent with HH at channel", <<_chan>>))
                \o When(_dip_list[index(_chan_list, _chan)]
                            # _dip_list[index(_chan_list, hh1)],
                        Line(ERROR, "dip not consistent with HH at channel", <<_chan>>))
        IN  IF LastChar(_chan) \notin {"1", "N"}
            THEN [lines |-> streams, exc |-> "none"]
            ELSE IF ~ In(partner, _chan_list)
            THEN [lines |-> streams, exc |-> "ValueError"]
            ELSE IF _azimuth_list[index(_chan_list, _chan)] = None
            THEN [lines |-> streams, exc |-> "TypeError"]
            ELSE [lines |-> streams \o
                     When(PairDiffers(_azimuth_list[index(_chan_list, _chan)],
                                      _azimuth_list[index(_chan_list, partner)]),
                          Line(ERROR,
                               "azimuth not consistent between horizontal channels, check",
                               <<Prefix(_chan, 2)>>)),
                  exc |-> "none"]

\* lines 293-301
check_chan_list_begin ==
    /\ pc = "check_chan_list"
    /\ kept_chan_list' = <<>>
    /\ idx' = 1
    /\ IF Len(chan_list) = 0
       THEN /\ out' = out \o
                   <<Line("", "Velocimtric channels affiliated to RLBP network (net='FR', loc='00', cha='?H?'):", <<>>),
                     Line(ERROR, "no channel related to this station", <<>>)>>
            /\ pc' = "idle"
       ELSE /\ out' = Append(out,
                   Line("", "Velocimtric channels affiliated to RLBP network (net='FR', loc='00', cha='?H?'):", <<>>))
            /\ pc' = "check_chan_list_filter"
    /\ UNCHANGED <<exc, nfetch, requested, args, chan_list, sta_json, _hhz_all_param>>

\* lines 302-306: one iteration; ok tells whether get_json answers with success
check_chan_list_filter ==
    /\ pc = "check_chan_list_filter"
    /\ \E ok \in BOOLEAN :
          /\ nfetch' = nfetch + 1
          /\ IF ~ ok
             THEN /\ pc' = "raised"
                  /\ exc' = Raised("HTTPError", "check_chan_list")
                  /\ UNCHANGED <<idx, kept_chan_list>>
             ELSE /\ kept_chan_list' = IF IsKept(chan_list[idx])
                                       THEN Append(kept_chan_list, idx)
                                       ELSE kept_chan_list
                  /\ idx' = idx + 1
                  /\ pc' = IF idx = Len(chan_list) THEN "check_chan_list_streams"
                           ELSE "check_chan_list_filter"
                  /\ UNCHANGED exc
    /\ UNCHANGED <<out, requested, args, chan_list, sta_json, _hhz_all_param>>

\* lines 308-330
check_chan_list_streams ==
    /\ pc = "check_chan_list_streams"
    /\ IF Len(kept_chan_list) = 0
       THEN /\ out' = Append(out, Line(ERROR, "available channels are not affiliated to RLBP network", <<>>))
            /\ pc' = "idle"
            /\ UNCHANGED <<exc, nfetch, idx, sta_json>>
       ELSE \E ok \in BOOLEAN :
            LET station == AttributeLines(chan_list, [i \in 1..Len(chan_list) |-> i], "station")
                _stream_list == [i \in 1..Len(Kept) |-> Prefix(Kept[i].code, 2)]
            IN  /\ nfetch' = nfetch + 1
                /\ IF ~ ok
                   THEN /\ out' = out \o station
                        /\ pc' = "raised"
                        /\ exc' = Raised("HTTPError", "check_chan_list")
                        /\ UNCHANGED <<idx, sta_json>>
                   ELSE /\ sta_json' = Station(Kept[1].station)
                        /\ UNCHANGED exc
                        /\ IF count(_stream_list, "HH") # 3
                           THEN /\ out' = out \o station \o
                                       <<Line(ERROR, "no or missing 'HH' channels, mandatory", <<>>)>>
                                /\ pc' = "idle"
                                /\ UNCHANGED idx
                           ELSE /\ out' = out \o station \o LHLines(_stream_list)
                                /\ pc' = "check_chan_list_cross"
                                /\ idx' = 1
    /\ UNCHANGED <<requested, args, chan_list, kept_chan_list, _hhz_all_param>>

\* lines 331-364: one iteration
check_chan_list_cross ==
    /\ pc = "check_chan_list_cross"
    /\ LET r == CrossCheck([i \in 1..Len(Kept) |-> Kept[i].code],
                           [i \in 1..Len(Kept) |-> Kept[i].azimuth],
                           [i \in 1..Len(Kept) |-> Kept[i].dip], idx)
       IN  /\ out' = out \o r.lines
           /\ IF r.exc # "none"
              THEN /\ pc' = "raised"
                   /\ exc' = Raised(r.exc, "check_chan_list")
                   /\ UNCHANGED idx
              ELSE /\ idx' = idx + 1
                   /\ pc' = IF idx = Len(Kept) THEN "check_chan_list_attributes"
                            ELSE "check_chan_list_cross"
                   /\ UNCHANGED exc
    /\ UNCHANGED <<nfetch, requested, args, chan>>

\* lines 366-380
check_chan_list_attributes ==
    /\ pc = "check_chan_list_attributes"
    /\ LET r == AttributeChecks(chan_list, kept_chan_list, 1)
       IN  /\ chan_list' = r.chan_list
           /\ out' = out \o r.lines
    /\ pc' = "check_chan_list_reference"
    /\ UNCHANGED <<exc, nfetch, requested, idx, args, kept_chan_list, sta_json, _hhz_all_param>>

\* the indices, in kept_chan_list, of the channels coded as one of codes
Coded(codes) == SelectSeq([i \in 1..Len(Kept) |-> i], LAMBDA i : Kept[i].code \in codes)

\* lines 382-396: one get_parameter_from_chan per channel coded HHZ, the last
\* answer being kept; the fail-th fetch answers with an error status (0: none)
check_chan_list_reference ==
    /\ pc = "check_chan_list_reference"
    /\ LET hhz == Coded({"HHZ"})
       IN  \E fail \in 0..Len(hhz) :
              IF fail # 0
              THEN /\ nfetch' = nfetch + fail
                   /\ pc' = "raised"
                   /\ exc' = Raised("HTTPError", "check_chan_list")
                   /\ UNCHANGED <<_hhz_all_param, idx>>
              ELSE /\ nfetch' = nfetch + Len(hhz)
                   /\ _hhz_all_param' =
                          IF Len(hhz) = 0 THEN None
                          ELSE [k |-> "list", v |-> ChannelParameters(Kept[hhz[Len(hhz)]].id)]
                   /\ pc' = "check_chan_list_standard"
                   /\ idx' = 1
                   /\ UNCHANGED exc
    /\ UNCHANGED <<out, requested, args, chan_list, kept_chan_list, sta_json>>

\* lines 392/418, 396/422: the sorted values of a list of parameters
ValueList(params) == sort([i \in 1..Len(params) |-> params[i].value], FALSE)

\* lines 401-406
PositionCheck(c) ==
    PositionLines(c)
    \o When(c.latitude # sta_json.latitude \/ c.longitude # sta_json.longitude
                \/ c.elevation # sta_json.elevation,
            Line(WARNING, "channel position differs from station position", <<c.code>>))

\* lines 410-425
ParameterLines(c, _c_all_param) ==
    IF Len(_c_all_param) = 0
    THEN <<Line(ERROR, "no parameters at channel", <<c.code>>)>>
    ELSE IF _hhz_all_param # None
    THEN When(ValueList(_c_all_param) # ValueList(_hhz_all_param.v),
              Line(ERROR, "parameters not consistent for channel", <<c.code>>))
    ELSE <<>>

\* lines 398-425: one iteration; fail tells which fetch of
\* _check_chan_mseed_standard fails, ok whether get_parameter_from_chan succeeds
check_chan_list_standard ==
    /\ pc = "check_chan_list_standard"
    /\ LET c == Kept[idx]
       IN  \E fail \in 0..Len(c.equipments), ok \in BOOLEAN :
              LET r == Mseed(c, fail)
              IN  IF r.exc # "none"
                  THEN /\ out' = out \o r.lines
                       /\ nfetch' = nfetch + r.nfetch
                       /\ pc' = "raised"
                       /\ exc' = Raised(r.exc, "_check_chan_mseed_standard")
                       /\ UNCHANGED idx
                  ELSE IF ~ ok
                  THEN /\ out' = out \o r.lines \o PositionCheck(c)
                       /\ nfetch' = nfetch + r.nfetch + 1
                       /\ pc' = "raised"
                       /\ exc' = Raised("HTTPError", "check_chan_list")
                       /\ UNCHANGED idx
                  ELSE /\ out' = out \o r.lines \o PositionCheck(c)
                                     \o ParameterLines(c, ChannelParameters(c.id))
                       /\ nfetch' = nfetch + r.nfetch + 1
                       /\ idx' = idx + 1
                       /\ pc' = IF idx = Len(Kept) THEN "check_chan_list_summary"
                                ELSE "check_chan_list_standard"
                       /\ UNCHANGED exc
    /\ UNCHANGED <<requested, args, chan>>

\* lines 427-436
RECURSIVE StatLines(_)
StatLines(l) ==
    IF Len(l) = 0 THEN <<>>
    ELSE <<Line("", "    %s.%s.%s.%s", <<"FR", sta_json.code, Head(l).location_code, Head(l).code>>)>>
         \o When(LastChar(Head(l).code) = "Z",
                 Line("", "        Sample rate: %s %s", <<Head(l).sample_rate, Head(l).sample_rate_unit>>))
         \o StatLines(Tail(l))

\* lines 446-451: the last equipment of the type among those of the channel, or None
LastOfType(equipments, type) ==
    LET found == SelectSeq(equipments, LAMBDA e : EquipmentType(e) = type)
    IN  IF Len(found) = 0 THEN None ELSE [k |-> "json", v |-> Equipment(found[Len(found)])]

\* lines 454-462
PositionSummary(c_hhz) ==
    <<Line("", "    All velocimetric channels:", <<>>),
      Line("", "        Latitude: %s %s", <<c_hhz.latitude, c_hhz.latitude_unit>>),
      Line("", "        Longitude: %s %s", <<c_hhz.longitude, c_hhz.longitude_unit>>),
      Line("", "        Elevation: %s %s", <<c_hhz.elevation, c_hhz.elevation_unit>>),
      Line("", "        Depth: %s %s", <<c_hhz.depth, c_hhz.depth_unit>>)>>

\* lines 463-484
InstrumentSummary(c_hhz, c_hhn, p_list) ==
    LET velocimeter_json == LastOfType(c_hhz.equipments, "Velocimeter")
        datalogger_json == LastOfType(c_hhz.equipments, "Datalogger")
    IN  <<Line("", "        Azimuth: %s %s", <<c_hhn.azimuth, c_hhn.azimuth_unit>>),
          Line("", "        Vertical dip: %s %s", <<c_hhz.dip, c_hhn.dip_unit>>)>>
        \o When(velocimeter_json # None,
                Line("", "        Velocimeter: %s #%s",
                     <<velocimeter_json.v.name, velocimeter_json.v.serial_number>>))
        \o When(datalogger_json # None,
                Line("", "        Datalogger: %s #%s",
                     <<datalogger_json.v.name, datalogger_json.v.serial_number>>))
        \o When(Len(c_hhz.datatypes) > 0, Line("", "        Datatypes:", <<>>))
        \o [i \in 1..Len(c_hhz.datatypes) |-> Line("", "            %s", <<c_hhz.datatypes[i]>>)]
        \o When(Len(p_list) > 0, Line("", "        Instrument parameters:", <<>>))
        \o [i \in 1..Len(p_list) |->
              Line("", "            %s %s %s",
                   <<p_list[i].model, p_list[i].parameter, p_list[i].value>>)]

\* lines 427-484. c_hhz and c_hhn are bound by the loop of lines 438-442 only if
\* a channel carries the code: reading an unbound one raises UnboundLocalError.
\* The fail-th fetch (the equipments of c_hhz, then its parameters) answers with
\* an error status (0: none does).
check_chan_list_summary ==
    /\ pc = "check_chan_list_summary"
    /\ LET hhz == Coded({"HHZ"})
           hhn == Coded({"HH1", "HHN"})
           stats == StatLines(Kept)
       IN  IF Len(hhz) = 0
           THEN /\ out' = out \o stats
                /\ pc' = "raised"
                /\ exc' = Raised("UnboundLocalError", "check_chan_list")
                /\ UNCHANGED nfetch
           ELSE LET c_hhz == Kept[hhz[Len(hhz)]]
                IN  \E fail \in 0..(Len(c_hhz.equipments) + 1) :
                       IF fail # 0
                       THEN /\ out' = out \o stats
                            /\ nfetch' = nfetch + fail
                            /\ pc' = "raised"
                            /\ exc' = Raised("HTTPError", "check_chan_list")
                       ELSE /\ nfetch' = nfetch + Len(c_hhz.equipments) + 1
                            /\ IF Len(hhn) = 0
                               THEN /\ out' = out \o stats \o PositionSummary(c_hhz)
                                    /\ pc' = "raised"
                                    /\ exc' = Raised("UnboundLocalError", "check_chan_list")
                               ELSE /\ out' = out \o stats \o PositionSummary(c_hhz)
                                         \o InstrumentSummary(c_hhz, Kept[hhn[Len(hhn)]],
                                                              ChannelParameters(c_hhz.id))
                                    /\ pc' = "idle"
                                    /\ UNCHANGED exc
    /\ UNCHANGED <<requested, idx, args, chan>>

check_chan_list ==
    \/ check_chan_list_begin
    \/ check_chan_list_filter
    \/ check_chan_list_streams
    \/ check_chan_list_cross
    \/ check_chan_list_attributes
    \/ check_chan_list_reference
    \/ check_chan_list_standard
    \/ check_chan_list_summary

(***************************************************************************)
(* The channel lists check_chan_list is given.                             *)
(***************************************************************************)
\* the azimuths of the north and of the east channel, as the API gives them:
\* numbers, decimal strings, or null
AzimuthPairs ==
    {<<Num(100), Num(1000)>>, <<Num(100), Num(950)>>,
     <<Str("10.0"), Str("100.0")>>, <<Str("10.0"), Str("95.0")>>,
     <<Str("350.0"), Str("80.0")>>, <<None, Num(1000)>>}

\* the three high-rate channels; scheme names the horizontal ones ("NE" or "12")
HHChannels(scheme, azn, aze) ==
    <<Channel(1, "HHZ", Num(0), Num(-900), Num(1000)),
      Channel(2, "HH" \o SubSeq(scheme, 1, 1), azn, Num(0), Num(1000)),
      Channel(3, "HH" \o SubSeq(scheme, 2, 2), aze, Num(0), Num(1000))>>

\* the three long-period channels
LHChannels(scheme, azn, aze) ==
    <<Channel(4, "LHZ", Num(0), Num(-900), Num(10)),
      Channel(5, "LH" \o SubSeq(scheme, 1, 1), azn, Num(0), Num(10)),
      Channel(6, "LH" \o SubSeq(scheme, 2, 2), aze, Num(0), Num(10))>>

\* other channels of the station: a closed one, one of another network, one at
\* another location, an accelerometer, a short-period and a broad-band one, and
\* a second HHZ, one that lists its datatypes and equipments in another order and
\* one with a second velocimeter
ExtraPool ==
    {[Channel(7, "HHZ", Num(0), Num(-900), Num(1000)) EXCEPT !.end_date = Str("2015-06-01")],
     [Channel(7, "HHZ", Num(0), Num(-900), Num(1000)) EXCEPT !.network = NetworkRA],
     [Channel(7, "HHZ", Num(0), Num(-900), Num(1000)) EXCEPT !.location_code = "10"],
     Channel(7, "HNZ", Num(0), Num(-900), Num(1000)),
     Channel(8, "EHE", Num(900), Num(0), Num(1000)),
     Channel(9, "BHZ", Num(0), Num(-900), Num(200)),
     Channel(7, "HHZ", Num(0), Num(-900), Num(1000)),
     [Channel(7, "HHZ", Num(0), Num(-900), Num(1000))
        EXCEPT !.datatypes = <<"GEOPHYSICAL", "CONTINUOUS">>, !.equipments = <<2, 1>>],
     [Channel(7, "HHZ", Num(0), Num(-900), Num(1000)) EXCEPT !.equipments = <<1, 2, 3>>]}

\* l without its i-th element (l itself for i = 0)
Without(l, i) == IF i = 0 THEN l ELSE pop(l, i)

ChanLists ==
    {x \o Without(HHChannels(s, az[1], az[2]), d) \o SubSeq(LHChannels(s, az[1], az[2]), 1, nlh) :
        x \in SeqUpTo(ExtraPool, MaxExtras), s \in {"NE", "12"}, az \in AzimuthPairs,
        d \in 0..3, nlh \in 0..3}
    \cup SeqUpTo(ExtraPool, MaxExtras)

(***************************************************************************)
(* check_overall_single_station                                            *)
(***************************************************************************)
\* line 40
sta_url(sta_id) == "https://gissmo.unistra.fr/api/v1/sites/" \o IntStr(sta_id) \o "/"

\* lines 41-45
StationDocs(all_doc_list, sta_id) ==
    SelectSeq(all_doc_list, LAMBDA d : d.station = sta_url(sta_id))

RECURSIVE LastNetEquipment(_, _)
\* lines 497-501: the index of the last modem or router of l[1..n], 0 for None
LastNetEquipment(l, n) ==
    IF n = 0 THEN 0
    ELSE IF IsNetEquipment(l[n]) THEN n ELSE LastNetEquipment(l, n - 1)

net_equipment == LastNetEquipment(equip_list, Len(equip_list))

\* lines 509-514: the validator called once v has returned
NextValidator_StationLast(v) ==
    CASE v = "check_docs" -> "check_sta_equipments"
      [] v = "check_sta_equipments" -> "check_ips"
      [] v = "check_ips" -> "check_services"
      [] v = "check_services" -> "check_chan_list"
      [] v = "check_chan_list" -> "check_station"
      [] OTHER -> "done"

NextValidator(v) ==
    CASE v = "check_station" -> "check_docs"
      [] v = "check_docs" -> "check_sta_equipments"
      [] v = "check_sta_equipments" -> "check_ips"
      [] v = "check_ips" -> "check_services"
      [] v = "check_services" -> "check_chan_list"
      [] OTHER -> "done"

\* line 509: the first validator called
FirstValidator == CHOOSE v \in {"check_station", "check_docs"} :
                     \A w \in {"check_station", "check_docs"} : NextValidator(w) # v

\* what the API answers to the station's requests
SiteRecord(lat, geology, operator) ==
    [id |-> 1, code |-> "CHMF", name |-> "Chamouilley",
     latitude |-> lat, latitude_unit |-> Str("deg"),
     longitude |-> Num(75), longitude_unit |-> Str("deg"),
     elevation |-> Num(2500), elevation_unit |-> Str("m"),
     type |-> "Measuring site", status |-> "Running", geology |-> geology,
     operator |-> operator]

StaLists ==
    {<<>>, <<SiteRecord(Num(485), "Limestone", OperatorEOST)>>,
     <<SiteRecord(None, "", OperatorNone)>>}

SiteDoc(t, l, site) == [doctype |-> t, title |-> "t", link |-> l, station |-> site]

AllDocLists ==
    {<<>>,
     <<SiteDoc("Lease", OtherLink, sta_url(1)), SiteDoc("Datasheet", OtherLink, sta_url(2))>>,
     <<SiteDoc("Analysis report", ProposalLink, sta_url(1)),
       SiteDoc("Analysis report", ProposalLink, sta_url(1))>>}

SiteEquipLists ==
    {<<>>, <<Equip("Velocimeter", "Running"), Equip("ADSL Modem", "Running")>>,
     <<Equip("Modem", "Running"), Equip("Routeur 4G", "Running")>>}

SiteChanLists ==
    {<<>>,
     HHChannels("NE", Str("10.0"), Str("100.0")) \o LHChannels("NE", Str("10.0"), Str("100.0")),
     HHChannels("NE", Num(100), Num(1000))}

SiteIpLists == {<<>>, <<Ip("130.79.1.1", "0.0.0.0")>>}

Service(p, port) == [protocol |-> p, port |-> port, description |-> "d"]

SiteSerLists == {<<>>, <<Service("ssh", 22)>>}

\* a get_json of check_overall_single_station that fails
FetchFails ==
    /\ pc' = "raised"
    /\ exc' = Raised("HTTPError", "check_overall_single_station")
    /\ UNCHANGED <<out, requested, idx, args, chan>>

\* lines 489-491
get_station_json ==
    /\ pc = "check_overall_single_station"
    /\ nfetch' = nfetch + 1
    /\ \E ok \in BOOLEAN, l \in StaLists :
          IF ~ ok THEN FetchFails
          ELSE /\ sta_list' = l
               /\ IF Len(l) = 0
                  THEN /\ out' = Append(out, Line(ERROR, "%s station code not existing in database", <<>>))
                       /\ pc' = "idle"
                       /\ caller' = "done"
                  ELSE /\ pc' = "get_docs_from_station"
                       /\ UNCHANGED <<out, caller>>
               /\ UNCHANGED <<exc, requested, idx, doc_list, equip_list, ip_list,
                              some_json, chan_json, ser_list, chan>>

\* lines 493, 38-45
get_docs_from_station ==
    /\ pc = "get_docs_from_station"
    /\ nfetch' = nfetch + 1
    /\ \E ok \in BOOLEAN, all_doc_list \in AllDocLists :
          IF ~ ok THEN FetchFails
          ELSE /\ doc_list' = StationDocs(all_doc_list, sta_list[1].id)
               /\ pc' = "get_equip_from_station"
               /\ UNCHANGED <<exc, out, requested, idx, equip_list, ip_list, some_json,
                              chan_json, sta_list, ser_list, caller, chan>>

\* line 494
get_equip_from_station ==
    /\ pc = "get_equip_from_station"
    /\ nfetch' = nfetch + 1
    /\ \E ok \in BOOLEAN, l \in SiteEquipLists :
          IF ~ ok THEN FetchFails
          ELSE /\ equip_list' = l
               /\ pc' = "get_chan_from_station"
               /\ UNCHANGED <<exc, out, requested, idx, doc_list, ip_list, some_json,
                              chan_json, sta_list, ser_list, caller, chan>>

\* lines 495-505: without a modem or router the validators are called next
get_chan_from_station ==
    /\ pc = "get_chan_from_station"
    /\ nfetch' = nfetch + 1
    /\ \E ok \in BOOLEAN, l \in SiteChanLists :
          IF ~ ok THEN FetchFails
          ELSE /\ chan_list' = l
               /\ IF net_equipment # 0
                  THEN /\ pc' = "get_ip_from_equip"
                       /\ UNCHANGED caller
                  ELSE /\ pc' = FirstValidator
                       /\ caller' = NextValidator(FirstValidator)
               /\ UNCHANGED <<exc, out, requested, idx, doc_list, equip_list, ip_list,
                              some_json, chan_json, sta_list, ser_list,
                              kept_chan_list, sta_json, _hhz_all_param>>

\* line 506
get_ip_from_equip ==
    /\ pc = "get_ip_from_equip"
    /\ nfetch' = nfetch + 1
    /\ \E ok \in BOOLEAN, l \in SiteIpLists :
          IF ~ ok THEN FetchFails
          ELSE /\ ip_list' = l
               /\ pc' = "get_service_from_equip"
               /\ UNCHANGED <<exc, out, requested, idx, doc_list, equip_list, some_json,
                              chan_json, sta_list, ser_list, caller, chan>>

\* lines 507-509
get_service_from_equip ==
    /\ pc = "get_service_from_equip"
    /\ nfetch' = nfetch + 1
    /\ \E ok \in BOOLEAN, l \in SiteSerLists :
          IF ~ ok THEN FetchFails
          ELSE /\ ser_list' = l
               /\ pc' = FirstValidator
               /\ caller' = NextValidator(FirstValidator)
               /\ UNCHANGED <<exc, out, requested, idx, doc_list, equip_list, ip_list,
                              some_json, chan_json, sta_list, chan>>

\* lines 510-514: a validator has returned, the next one is called
call_validator ==
    /\ pc = "idle"
    /\ caller \notin {"none", "done"}
    /\ pc' = caller
    /\ caller' = NextValidator(caller)
    /\ UNCHANGED <<exc, out, nfetch, requested, idx, doc_list, equip_list, ip_list,
                   some_json, chan_json, sta_list, ser_list, chan>>

check_overall_single_station ==
    \/ get_station_json
    \/ get_docs_from_station
    \/ get_equip_from_station
    \/ get_chan_from_station
    \/ get_ip_from_equip
    \/ get_service_from_equip
    \/ call_validator

(***************************************************************************)
(* Specifications: one per validator, its argument drawn from a pool.      *)
(***************************************************************************)
InitCommon ==
    /\ exc = NoExc
    /\ out = <<>>
    /\ nfetch = 0
    /\ requested = <<>>
    /\ idx = 0
    /\ sta_list = <<>>
    /\ ser_list = <<>>
    /\ caller = "none"
    /\ kept_chan_list = <<>>
    /\ sta_json = NoJson
    /\ _hhz_all_param = None

InitDocs ==
    /\ InitCommon
    /\ pc = "check_docs"
    /\ doc_list \in SeqUpTo(DocPool, MaxDocs)
    /\ equip_list = <<>>
    /\ ip_list = <<>>
    /\ some_json = NoJson
    /\ chan_json = NoJson
    /\ chan_list = <<>>

NextDocs == check_docs

SpecDocs == InitDocs /\ [][NextDocs]_vars

InitEquips ==
    /\ InitCommon
    /\ pc = "check_sta_equipments"
    /\ doc_list = <<>>
    /\ equip_list \in SeqUpTo(EquipPool, MaxEquips)
    /\ ip_list = <<>>
    /\ some_json = NoJson
    /\ chan_json = NoJson
    /\ chan_list = <<>>

NextEquips == check_sta_equipments

SpecEquips == InitEquips /\ [][NextEquips]_vars

InitIps ==
    /\ InitCommon
    /\ pc = "check_ips"
    /\ doc_list = <<>>
    /\ equip_list = <<>>
    /\ ip_list \in SeqUpTo(IpPool, MaxIps)
    /\ some_json = NoJson
    /\ chan_json = NoJson
    /\ chan_list = <<>>

NextIps == check_ips

SpecIps == InitIps /\ [][NextIps]_vars

InitPosition ==
    /\ InitCommon
    /\ pc = "_check_position"
    /\ doc_list = <<>>
    /\ equip_list = <<>>
    /\ ip_list = <<>>
    /\ some_json \in PositionPool
    /\ chan_json = NoJson
    /\ chan_list = <<>>

NextPosition == _check_position

SpecPosition == InitPosition /\ [][NextPosition]_vars

InitMseed ==
    /\ InitCommon
    /\ pc = "_check_chan_mseed_standard"
    /\ doc_list = <<>>
    /\ equip_list = <<>>
    /\ ip_list = <<>>
    /\ some_json = NoJson
    /\ chan_json \in MseedPool
    /\ chan_list = <<>>

NextMseed == _check_chan_mseed_standard

SpecMseed == InitMseed /\ [][NextMseed]_vars

InitChan ==
    /\ InitCommon
    /\ pc = "check_chan_list"
    /\ doc_list = <<>>
    /\ equip_list = <<>>
    /\ ip_list = <<>>
    /\ some_json = NoJson
    /\ chan_json = NoJson
    /\ chan_list \in ChanLists

NextChan == check_chan_list

SpecChan == InitChan /\ [][NextChan]_vars

\* a whole run: every list is fetched by check_overall_single_station
InitRun ==
    /\ exc = NoExc
    /\ out = <<>>
    /\ nfetch = 0
    /\ requested = <<>>
    /\ idx = 0
    /\ sta_list = <<>>
    /\ ser_list = <<>>
    /\ kept_chan_list = <<>>
    /\ sta_json = NoJson
    /\ _hhz_all_param = None
    /\ pc = "check_overall_single_station"
    /\ caller = "check_overall_single_station"
    /\ doc_list = <<>>
    /\ equip_list = <<>>
    /\ ip_list = <<>>
    /\ some_json = NoJson
    /\ chan_json = NoJson
    /\ chan_list = <<>>

NextRun ==
    \/ check_overall_single_station
    \/ check_station
    \/ check_docs
    \/ check_sta_equipments
    \/ check_ips
    \/ check_services
    \/ check_chan_list

SpecRun == InitRun /\ [][NextRun]_vars

(***************************************************************************)
(* C1: the documents' and equipments' validators never raise: whatever the *)
(* list, check_docs and check_sta_equipments run to completion.            *)
(* Stated for check_docs; the code violates it.                            *)
(***************************************************************************)
C1_ChecklistsNeverRaise == pc # "raised"

OwnFetchPositions ==
    {"check_overall_single_station", "get_docs_from_station", "get_equip_from_station",
     "get_chan_from_station", "get_ip_from_equip", "get_service_from_equip",
     "check_station"}

RequiredDocTypes == {"Lease", "Datasheet", "Picture", "Analysis report", "Site proposal"}

DocSatisfies(d, T) ==
    \/ d.doctype = T
    \/ /\ T = "Site proposal"
       /\ d.doctype = "Analysis report"
       /\ re_search("dossier_proposition_site_", d.link)

NoDocErrors(T) ==
    {i \in 1..Len(out) : out[i] = Line(ERROR, "%s no %s related to this station", <<T>>)}

C3_MissingDocsReported ==
    (pc = "idle" /\ Len(doc_list) > 0) =>
        \A T \in RequiredDocTypes :
            Cardinality(NoDocErrors(T)) =
                IF \E i \in 1..Len(doc_list) : DocSatisfies(doc_list[i], T) THEN 0 ELSE 1

\* a list that misses only the lease, through the substitution rule, was checked
C3_Witness ==
    /\ pc = "idle"
    /\ Len(doc_list) = 3
    /\ \E i \in 1..3 : doc_list[i] = Doc("Analysis report", ProposalLink)
    /\ \A T \in RequiredDocTypes :
           (T = "Lease") = ~ \E i \in 1..3 : DocSatisfies(doc_list[i], T)
    /\ Cardinality(NoDocErrors("Lease")) = 1

(***************************************************************************)
(* C4: when check_sta_equipments completes on a non-empty list, the error  *)
(* "no T installed at this station" is printed (once) exactly for the      *)
(* required types T that no equipment satisfies. An equipment of type T    *)
(* satisfies T, and one whose type contains "modem" or "routeur", whatever *)
(* the case, satisfies "Modem".                                            *)
(***************************************************************************)
RequiredEquipTypes == {"Velocimeter", "Datalogger", "Armoire BT", "Armoire TBT", "Modem"}

EquipSatisfies(e, T) ==
    \/ e.type = T
    \/ /\ T = "Modem"
       /\ \/ re_search("modem", lower(e.type))
          \/ re_search("routeur", lower(e.type))

NoEquipErrors(T) ==
    {i \in 1..Len(out) : out[i] = Line(ERROR, "%s no %s installed at this station", <<T>>)}

C4_MissingEquipsReported ==
    (pc = "idle" /\ Len(equip_list) > 0) =>
        \A T \in RequiredEquipTypes :
            Cardinality(NoEquipErrors(T)) =
                IF \E i \in 1..Len(equip_list) : EquipSatisfies(equip_list[i], T)
                THEN 0 ELSE 1

\* a list of one "ADSL Modem" was checked: every error but the modem's
C4_Witness ==
    /\ pc = "idle"
    /\ equip_list = <<Equip("ADSL Modem", "Running")>>
    /\ NoEquipErrors("Modem") = {}
    /\ \A T \in RequiredEquipTypes \ {"Modem"} : Cardinality(NoEquipErrors(T)) = 1

(***************************************************************************)
(* C5: _check_position prints the latitude error iff the latitude is None  *)
(* or outside [-90, 90], the longitude error iff the longitude is None or  *)
(* outside [-180, 180], the elevation error iff the elevation is None or   *)
(* outside [-11000, 9000], and a unit error for each unit that is None;    *)
(* each finding depends on its own field only.                             *)
(***************************************************************************)
Outside(x, lo, hi) == x = None \/ x.v < lo * 10 \/ x.v > hi * 10

Printed(msg) == Cardinality(Lines(out, msg))

C5_PositionFindings ==
    pc = "idle" =>
        /\ Printed("%s latitude is %s") = (IF Outside(some_json.latitude, -90, 90) THEN 1 ELSE 0)
        /\ Printed("%s longitude is %s") = (IF Outside(some_json.longitude, -180, 180) THEN 1 ELSE 0)
        /\ Printed("%s elevation is %s") = (IF Outside(some_json.elevation, -11000, 9000) THEN 1 ELSE 0)
        /\ Printed("%s latitude unit is None") = (IF some_json.latitude_unit = None THEN 1 ELSE 0)
        /\ Printed("%s longitude unit is None") = (IF some_json.longitude_unit = None THEN 1 ELSE 0)
        /\ Printed("%s elevation unit is None") = (IF some_json.elevation_unit = None THEN 1 ELSE 0)
        /\ Len(out) = Printed("%s latitude is %s") + Printed("%s longitude is %s")
                      + Printed("%s elevation is %s") + Printed("%s latitude unit is None")
                      + Printed("%s longitude unit is None")
                      + Printed("%s elevation unit is None")

\* a null latitude next to an out-of-range longitude and a missing unit: all three reported
C5_Witness ==
    /\ pc = "idle"
    /\ some_json.latitude = None
    /\ some_json.longitude = Num(1801)
    /\ some_json.elevation = Num(2500)
    /\ some_json.elevation_unit = None
    /\ some_json.latitude_unit # None
    /\ some_json.longitude_unit # None
    /\ Len(out) = 3
    /\ Printed("%s latitude is %s") = 1
    /\ Printed("%s longitude is %s") = 1
    /\ Printed("%s elevation unit is None") = 1

(***************************************************************************)
(* C6: check_ips takes an address for public exactly when it starts with   *)
(* neither "192.168" nor "10." and its netmask is "0.0.0.0"; it prints the *)
(* error "no public ip found" iff no address of the list is public, and    *)
(* otherwise one "Public IP" line per public address and no error.         *)
(***************************************************************************)
StartsWith(s, p) == Len(s) >= Len(p) /\ SubSeq(s, 1, Len(p)) = p

PublicAddress(ip) ==
    /\ ~ StartsWith(ip.ip, "192.168")
    /\ ~ StartsWith(ip.ip, "10.")
    /\ ip.netmask = "0.0.0.0"

IsPublicIpLine(l) == l.msg = "    Public IP: %s"

C6_PublicIps ==
    pc = "idle" =>
        LET public == SelectSeq(ip_list, PublicAddress)
            shown == SelectSeq(out, IsPublicIpLine)
            errors == {i \in 1..Len(out) : out[i].tag = ERROR}
        IN  /\ Len(shown) = Len(public)
            /\ \A i \in 1..Len(shown) : shown[i].args = <<public[i].ip>>
            /\ Cardinality(errors) = (IF Len(public) = 0 THEN 1 ELSE 0)
            /\ \A i \in errors :
                   out[i].msg = "no public ip found, should be configured at modem level"

\* among a private address, a masked one and two public ones, the public ones are shown
C6_Witness ==
    /\ pc = "idle"
    /\ ip_list = <<Ip("10.1.2.3", "0.0.0.0"), Ip("100.64.0.1", "0.0.0.0"),
                   Ip("82.127.10.4", "0.0.0.0")>>
    /\ SelectSeq(out, IsPublicIpLine) =
           <<Line("", "    Public IP: %s", <<"100.64.0.1">>),
             Line("", "    Public IP: %s", <<"82.127.10.4">>)>>
    /\ \A i \in 1..Len(out) : out[i].tag # ERROR

(***************************************************************************)
(* C8: in _check_chan_mseed_standard a channel whose code ends in "E" gets *)
(* an azimuth error iff its azimuth is outside [0, 360] or more than 5     *)
(* away from 90: 92.0 is accepted, 80.0 is flagged, 85.0 and 95.0 are      *)
(* accepted. (Azimuth and dip are numbers: the function reads both first.) *)
(***************************************************************************)
AzimuthErrors ==
    {i \in 1..Len(out) :
        out[i].msg \in {"(should be in [0, 360]) not a consistent azimuth at channel",
                        "(should be in [85, 95]) not a consistent azimuth at channel",
                        "(should not be in [5, 355]) not a consistent azimuth at channel",
                        "%s azimuth is %.2f, component should be 'N'",
                        "(should be '0.0') not a consistent azimuth at channel"}}

MseedRan ==
    /\ pc \in {"idle", "raised"}
    /\ chan_json.azimuth # None
    /\ chan_json.dip # None

C8_EastAzimuthWindow ==
    (MseedRan /\ LastChar(chan_json.code) = "E") =>
        LET az == Float(chan_json.azimuth)
        IN  Cardinality(AzimuthErrors) =
                IF az < 0 \/ az > 3600 \/ az < 850 \/ az > 950 THEN 1 ELSE 0

\* the boundary 95.0 was accepted on an east channel
C8_Witness ==
    /\ pc = "idle"
    /\ chan_json.code = "HHE"
    /\ chan_json.azimuth = Num(950)
    /\ chan_json.dip = Num(0)
    /\ AzimuthErrors = {}

(***************************************************************************)
(* C9: in _check_chan_mseed_standard a channel whose code ends in "Z" gets *)
(* the dip error iff its dip is not -90, and one whose code ends in "E",   *)
(* "N", "1" or "2" iff its dip is not 0, whatever its azimuth, sample rate *)
(* and datatypes. (Azimuth and dip are numbers.)                           *)
(***************************************************************************)
DipErrors ==
    {i \in 1..Len(out) :
        out[i].msg \in {"(should be '0.0') not a consistent dip at channel",
                        "(should be '-90.0') not a consistent dip at channel"}}

C9_DipPerOrientation ==
    MseedRan =>
        LET d == Float(chan_json.dip)
            o == LastChar(chan_json.code)
        IN  /\ o = "Z" => Cardinality(DipErrors) = (IF d # -900 THEN 1 ELSE 0)
            /\ o \in {"E", "N", "1", "2"} => Cardinality(DipErrors) = (IF d # 0 THEN 1 ELSE 0)

\* a vertical channel with a wrong dip is flagged although its azimuth is out of
\* range and its sample rate is missing
C9_Witness ==
    /\ pc = "raised"
    /\ chan_json.code = "HHZ"
    /\ chan_json.location_code = "00"
    /\ chan_json.dip = Num(-895)
    /\ chan_json.azimuth = Num(3601)
    /\ chan_json.sample_rate = None
    /\ Cardinality(DipErrors) = 1

(***************************************************************************)
(* C7: in check_chan_list, for a horizontal pair of kept channels (north   *)
(* code ending in "1" or "N", east code ending in "2" or "E") the error    *)
(* "azimuth not consistent between horizontal channels" is printed iff the *)
(* east azimuth differs from (north azimuth + 90) mod 360, whether the API *)
(* gives the azimuths as numbers or as decimal strings. Stated on the      *)
(* state that follows the loop over the kept channels; the code violates   *)
(* it.                                                                     *)
(***************************************************************************)
PairErrorPrinted(stream) ==
    \E i \in 1..Len(out) :
        /\ out[i].msg = "azimuth not consistent between horizontal channels, check"
        /\ out[i].args = <<stream>>

KeptAzimuth(code) == Kept[CHOOSE i \in 1..Len(Kept) : Kept[i].code = code].azimuth

C7_PairAzimuthChecked ==
    pc = "check_chan_list_attributes" =>
        \A i \in 1..Len(Kept) :
            LET code == Kept[i].code
                east == IF LastChar(code) = "1" THEN replace(code, "1", "2")
                        ELSE replace(code, "N", "E")
            IN  (/\ LastChar(code) \in {"1", "N"}
                 /\ count([j \in 1..Len(Kept) |-> Kept[j].code], code) = 1
                 /\ count([j \in 1..Len(Kept) |-> Kept[j].code], east) = 1) =>
                    (PairErrorPrinted(Prefix(code, 2)) <=>
                        \/ KeptAzimuth(east) = None
                        \/ Float(KeptAzimuth(east)) # (Float(KeptAzimuth(code)) + 900) % 3600)

(***************************************************************************)
(* C10: in check_chan_list the kept channels are those with no end date,   *)
(* network code "FR", location code "00" and "H" as second letter of the   *)
(* code; when exactly 3 of them have stream "HH" and the number of those   *)
(* with stream "LH" is not 3, the finding on the LH streams is tagged      *)
(* WARNING, not ERROR, and the checks go on. The code violates it.         *)
(***************************************************************************)
KeptAsClaimed ==
    SelectSeq([i \in 1..Len(chan_list) |-> i],
              LAMBDA i : /\ chan_list[i].end_date = None
                         /\ chan_list[i].network = NetworkFR
                         /\ chan_list[i].location_code = "00"
                         /\ SubSeq(chan_list[i].code, 2, 2) = "H")

C10_MissingLHIsWarning ==
    pc \in {"check_chan_list_cross", "check_chan_list_attributes", "check_chan_list_reference",
            "check_chan_list_standard", "check_chan_list_summary"} =>
        /\ kept_chan_list = KeptAsClaimed
        /\ count([i \in 1..Len(Kept) |-> Prefix(Kept[i].code, 2)], "LH") # 3 =>
               \E i \in 1..Len(out) :
                   out[i].msg = "no or missing 'LH' channels" /\ out[i].tag = WARNING
        /\ \A i \in 1..Len(out) :
               out[i].msg = "no or missing 'LH' channels" => out[i].tag = WARNING

(***************************************************************************)
(* C11: check_chan_list runs to completion on every channel list whose     *)
(* kept channels hold exactly three "HH" channels: a north channel without *)
(* its east partner, a code whose band letter occurs again (such as        *)
(* "EHE"), a missing "HHZ" or "HH1"/"HHN" and an unexpected or repeated    *)
(* equipment type are reported and never raised: no failed lookup          *)
(* (ValueError of list.index, UnboundLocalError of c_hhz or c_hhn) leaves  *)
(* the function. The code violates it.                                     *)
(***************************************************************************)
C11_ChanListCompletes ==
    count([i \in 1..Len(Kept) |-> Prefix(Kept[i].code, 2)], "HH") = 3
        => exc.type \notin {"ValueError", "UnboundLocalError"}

(***************************************************************************)
(* C12: a checked field that is None is a validation failure and never an  *)
(* exception: on a channel whose azimuth, dip or sample rate is None,      *)
(* _check_chan_mseed_standard raises no TypeError and, when it returns,    *)
(* has printed a diagnostic. The code violates it: float(None) raises.     *)
(***************************************************************************)
C12_NoneIsAFinding ==
    (/\ pc \in {"idle", "raised"}
     /\ None \in {chan_json.azimuth, chan_json.dip, chan_json.sample_rate}) =>
        /\ exc.type # "TypeError"
        /\ pc = "idle" => \E i \in 1..Len(out) : out[i].tag = ERROR

(***************************************************************************)
(* C13: _check_chan_attribute leaves the channel records unchanged: the    *)
(* datatypes and the equipments of every channel keep the order in which   *)
(* they were fetched throughout check_chan_list (so the "Datatypes" lines  *)
(* of the HHZ channel come in the fetched order), and once the attributes  *)
(* are checked "are not consistent between channels" is printed for a      *)
(* list-valued attribute iff the kept channels' values differ as           *)
(* multisets. The code violates the first part: it sorts the lists of the  *)
(* records themselves.                                                     *)
(***************************************************************************)
BagOf(v) == [x \in {v[i] : i \in 1..Len(v)} |-> count(v, x)]

Inconsistent(param) ==
    \E i \in 1..Len(out) :
        /\ out[i].msg = "are not consistent between channels"
        /\ out[i].args = <<param>>

MultisetsDiffer(param) ==
    \E i \in 1..Len(Kept) : BagOf(Kept[i][param]) # BagOf(Kept[1][param])

C13_MultisetComparison ==
    pc = "check_chan_list_reference" =>
        \A param \in ListAttributes : Inconsistent(param) <=> MultisetsDiffer(param)

C13_RecordsUnchanged ==
    /\ [][chan_list' = chan_list]_vars
    /\ []C13_MultisetComparison

====
